---------------------------- MODULE Spec2Model ----------------------------
(***************************************************************************)
(* LinearRegressionChart (src/src/components/LinearRegressionVisualization *)
(* .tsx): a React component that generates a sample of 20 points, fits a   *)
(* least-squares line, draws points and line into an svg with d3, shows a  *)
(* tooltip on hover, zooms, and exports the svg as chart.png.              *)
(*                                                                         *)
(* The model has the hook state (points, slope, intercept, tooltip), the   *)
(* last committed render (shown), React's pending work (mountDue,          *)
(* renderDue, pointsNew, drawDue), the svg scene (circles, gAttr, anims),  *)
(* the pointer (hover), the export (capture, download, unhandled) and the  *)
(* count of clicks on Generate (clicks).  estData and estRet are the       *)
(* argument and the result of one call of calculateRegression, for the     *)
(* properties of the estimator alone.                                      *)
(***************************************************************************)
EXTENDS Integers, Sequences, FiniteSets, TLC

(***************************************************************************)
(* NUMBERS.  A JavaScript number is an IEEE-754 binary floating point      *)
(* value: every arithmetic operation returns the exact result rounded to   *)
(* the nearest representable value, ties to even.  A number is modelled as *)
(* [k, m, e]: k = "num" is the value m * 2^e with m odd (or m = 0, e = 0); *)
(* k = "nan", "inf", "-inf" are the special values.  binary64 keeps 53     *)
(* significant bits; the model keeps MantissaBits of them, because TLC's   *)
(* integers have 32 bits.  The exponent range is not limited.  The signs   *)
(* of zero are not told apart.                                             *)
(***************************************************************************)
MantissaBits == 20

Pow2(k) == 2 ^ k

Abs(i) == IF i < 0 THEN -i ELSE i

Sign(i) == IF i < 0 THEN -1 ELSE 1

Max(a, b) == IF a >= b THEN a ELSE b

\* the number of bits of the natural number i < 2^30
BitLen(i) == CHOOSE b \in 0..30 : i < Pow2(b) /\ (b = 0 \/ Pow2(b - 1) <= i)

NaN == [k |-> "nan", m |-> 0, e |-> 0]
PosInf == [k |-> "inf", m |-> 0, e |-> 0]
NegInf == [k |-> "-inf", m |-> 0, e |-> 0]

IsNum(v) == v.k = "num"

\* m * 2^e in canonical form: the mantissa is odd, zero is [0, 0]
Canon(m, e) ==
    IF m = 0 THEN [k |-> "num", m |-> 0, e |-> 0]
    ELSE LET z == CHOOSE j \in 0..30 :
                      Abs(m) % Pow2(j) = 0 /\ Abs(m) % Pow2(j + 1) # 0
         IN  [k |-> "num", m |-> Sign(m) * (Abs(m) \div Pow2(z)), e |-> e + z]

\* the integer i as a number
Num(i) == Canon(i, 0)

\* m * 2^e rounded to MantissaBits significant bits, ties to even
RoundME(m, e) ==
    LET a == Abs(m)
        t == BitLen(a) - MantissaBits
    IN  IF t <= 0 THEN Canon(m, e)
        ELSE LET q == a \div Pow2(t)
                 r == a % Pow2(t)
                 half == Pow2(t - 1)
                 up == IF r > half THEN 1
                       ELSE IF r = half THEN q % 2
                       ELSE 0
             IN  Canon(Sign(m) * (q + up), e + t)

\* the position just above the leading bit of a finite non-zero number
Top(v) == BitLen(Abs(v.m)) + v.e

\* v's mantissa on the grid 2^(base - 1); the bits below the grid are
\* kept as one sticky bit, which is enough to round the sum correctly
OnGrid(v, base) ==
    IF v.e >= base THEN 2 * v.m * Pow2(v.e - base)
    ELSE LET a == Abs(v.m)
             t == base - v.e
             q == IF t >= BitLen(a) THEN 0 ELSE a \div Pow2(t)
             sticky == IF t >= BitLen(a) \/ a % Pow2(t) # 0 THEN 1 ELSE 0
         IN  Sign(v.m) * (2 * q + sticky)

\* a + b
Add(a, b) ==
    IF a.k = "nan" \/ b.k = "nan" THEN NaN
    ELSE IF ~IsNum(a) /\ ~IsNum(b) THEN (IF a.k = b.k THEN a ELSE NaN)
    ELSE IF ~IsNum(a) THEN a
    ELSE IF ~IsNum(b) THEN b
    ELSE IF a.m = 0 THEN b
    ELSE IF b.m = 0 THEN a
    ELSE LET base == Max(Top(a), Top(b)) - (MantissaBits + 3)
         IN  RoundME(OnGrid(a, base) + OnGrid(b, base), base - 1)

\* -a
Neg(a) ==
    IF a.k = "nan" THEN NaN
    ELSE IF a.k = "inf" THEN NegInf
    ELSE IF a.k = "-inf" THEN PosInf
    ELSE [k |-> "num", m |-> -a.m, e |-> a.e]

\* a - b
Sub(a, b) == Add(a, Neg(b))

\* the sign of a number that is not NaN: -1, 0 or 1
Sgn(a) ==
    IF a.k = "inf" THEN 1
    ELSE IF a.k = "-inf" THEN -1
    ELSE IF a.m > 0 THEN 1
    ELSE IF a.m < 0 THEN -1
    ELSE 0

\* a * b
Mul(a, b) ==
    IF a.k = "nan" \/ b.k = "nan" THEN NaN
    ELSE IF ~IsNum(a) \/ ~IsNum(b)
         THEN (IF Sgn(a) * Sgn(b) = 0 THEN NaN
               ELSE IF Sgn(a) * Sgn(b) > 0 THEN PosInf ELSE NegInf)
    ELSE RoundME(a.m * b.m, a.e + b.e)

\* <<the quotient, the remainder>> of (q * d + r) * 2^s divided by d, for
\* r < d, taken eight bits at a time
RECURSIVE ShiftDiv(_, _, _, _)
ShiftDiv(q, r, d, s) ==
    IF s = 0 THEN <<q, r>>
    ELSE LET c == IF s < 8 THEN s ELSE 8
             qc == q * Pow2(c) + (r * Pow2(c)) \div d
             rc == (r * Pow2(c)) % d
         IN  IF qc >= 0 /\ rc >= 0 THEN ShiftDiv(qc, rc, d, s - c)
             ELSE <<qc, rc>>

\* a / b: the quotient of the mantissas to MantissaBits + 3 bits or more,
\* the rest of it kept as one sticky bit, then rounded once
Div(a, b) ==
    IF a.k = "nan" \/ b.k = "nan" THEN NaN
    ELSE IF ~IsNum(a) /\ ~IsNum(b) THEN NaN
    ELSE IF ~IsNum(a)
         THEN (IF Sgn(a) * Sign(b.m) > 0 THEN PosInf ELSE NegInf)
    ELSE IF ~IsNum(b) THEN Num(0)
    ELSE IF b.m = 0
         THEN (IF a.m = 0 THEN NaN
               ELSE IF a.m > 0 THEN PosInf ELSE NegInf)
    ELSE IF a.m = 0 THEN Num(0)
    ELSE LET n == Abs(a.m)
             d == Abs(b.m)
             s == Max(0, MantissaBits + 3 - (BitLen(n) - BitLen(d)))
             qr == ShiftDiv(n \div d, n % d, d, s)
             sticky == IF qr[2] # 0 THEN 1 ELSE 0
         IN  RoundME(Sign(a.m) * Sign(b.m) * (2 * qr[1] + sticky),
                     a.e - b.e - s - 1)


\* a < b for two finite numbers
Less(a, b) == Sgn(Sub(b, a)) > 0

\* Math.ceil of a finite number, as an integer
Ceil(v) == IF v.e >= 0 THEN v.m * Pow2(v.e) ELSE -((-v.m) \div Pow2(-v.e))

(***************************************************************************)
(* DATA.  A Point is [x, y]; a Sample is a sequence of Points.             *)
(***************************************************************************)
NumPoints == 20

\* Math.random() returns a number in [0, 1).  One generateData call makes
\* NumPoints draws; these are the sequences of draws the model chooses
\* from: all 0.5 (no noise), and 0.25 and 0.75 in turn.
RandomDraws ==
    { [i \in 1..NumPoints |-> Canon(1, -1)],
      [i \in 1..NumPoints |->
          IF i % 2 = 1 THEN Canon(1, -2) ELSE Canon(3, -2)] }

\* NewPoints with x = i in place of x = i + 1 (line 28)
NewPointsFromZero(rnd) ==
    [i \in 1..NumPoints |->
        LET x == Num(i - 1)
        IN  [x |-> x,
             y |-> Sub(Add(Add(Mul(Canon(5, -1), x), Num(5)),
                           Mul(rnd[i], Num(5))),
                       Canon(5, -1))]]

\* lines 27-31: the sample generateData builds from one sequence of draws;
\* the point of index i - 1 has x = (i - 1) + 1
NewPoints(rnd) ==
    [i \in 1..NumPoints |->
        LET x == Num((i - 1) + 1)
        IN  [x |-> x,
             y |-> Sub(Add(Add(Mul(Canon(5, -1), x), Num(5)),
                           Mul(rnd[i], Num(5))),
                       Canon(5, -1))]]

\* d3.sum(data, f), with vals the sequence of f's values: the values
\* are added from left to right; a value that is 0 or NaN is skipped
RECURSIVE d3sum(_, _, _)
d3sum(vals, i, acc) ==
    IF i > Len(vals) \/ acc.k = "nan" THEN acc
    ELSE d3sum(vals, i + 1,
               IF vals[i].k = "nan" \/ (IsNum(vals[i]) /\ vals[i].m = 0)
               THEN acc ELSE Add(acc, vals[i]))

\* d3.max(data, d => d.x) of a non-empty sample
RECURSIVE d3maxX(_, _, _)
d3maxX(data, i, best) ==
    IF i > Len(data) \/ best.k = "nan" THEN best
    ELSE d3maxX(data, i + 1, IF Less(best, data[i].x) THEN data[i].x ELSE best)

\* calculateRegression with sumY + m * sumX in place of sumY - m * sumX
\* (line 44)
calculateRegressionPlus(data) ==
    LET n == Num(Len(data))
        sumX == d3sum([i \in 1..Len(data) |-> data[i].x], 1, Num(0))
        sumY == d3sum([i \in 1..Len(data) |-> data[i].y], 1, Num(0))
        sumXY == d3sum([i \in 1..Len(data) |-> Mul(data[i].x, data[i].y)],
                       1, Num(0))
        sumXX == d3sum([i \in 1..Len(data) |-> Mul(data[i].x, data[i].x)],
                       1, Num(0))
        m == Div(Sub(Mul(n, sumXY), Mul(sumX, sumY)),
                 Sub(Mul(n, sumXX), Mul(sumX, sumX)))
        b == Div(Add(sumY, Mul(m, sumX)), n)
    IN  [m |-> m, b |-> b]

\* lines 36-49: the slope m and the intercept b that calculateRegression
\* returns, and stores with setSlope and setIntercept
calculateRegression(data) ==
    LET n == Num(Len(data))
        sumX == d3sum([i \in 1..Len(data) |-> data[i].x], 1, Num(0))
        sumY == d3sum([i \in 1..Len(data) |-> data[i].y], 1, Num(0))
        sumXY == d3sum([i \in 1..Len(data) |-> Mul(data[i].x, data[i].y)],
                       1, Num(0))
        sumXX == d3sum([i \in 1..Len(data) |-> Mul(data[i].x, data[i].x)],
                       1, Num(0))
        m == Div(Sub(Mul(n, sumXY), Mul(sumX, sumY)),
                 Sub(Mul(n, sumXX), Mul(sumX, sumX)))
        b == Div(Sub(sumY, Mul(m, sumX)), n)
    IN  [m |-> m, b |-> b]

\* lines 145-150: d3.range(0, max x + 1, 0.5) mapped to the points of the
\* line y = m x + b
linePoints(data, fit) ==
    LET stop == Add(d3maxX(data, 2, data[1].x), Num(1))
        step == Canon(1, -1)
        count == Max(0, Ceil(Div(Sub(stop, Num(0)), step)))
    IN  [i \in 1..count |->
            LET x == Add(Num(0), Mul(Num(i - 1), step))
            IN  [x |-> x, y |-> Add(Mul(fit.m, x), fit.b)]]

\* The samples generateData can build, with the fit and the line of each.
\* NewPoints is a function of the draws alone, calculateRegression and
\* linePoints of the sample alone: the actions look their results up here.
SampleOf == [rnd \in RandomDraws |-> NewPoints(rnd)]

Samples == { SampleOf[rnd] : rnd \in RandomDraws }

FitOf == [s \in Samples |-> calculateRegression(s)]

LineOf == [s \in Samples |-> linePoints(s, FitOf[s])]

(***************************************************************************)
(* STATE                                                                   *)
(***************************************************************************)
VARIABLES
    points,     \* useState: the Sample
    slope,      \* useState: the Fit's slope
    intercept,  \* useState: the Fit's intercept
    tooltip,    \* useState: [visible, x, y, dataX, dataY]
    shown,      \* the state the last committed render read: what is on screen
    mountDue,   \* the effects of the first render have not run yet
    renderDue,  \* a state setter was called since the last render
    pointsNew,  \* setPoints was called since the last render
    drawDue,    \* the last render had new points: its draw effect has not run yet
    circles,    \* the data bound to the circles of the svg, <<>> in an empty svg
    gAttr,      \* the transform attribute of every g element of the svg
    anims,      \* the line animations with timers left, and the scene's path last
    hover,      \* the index of the circle under the pointer, 0 for none
    capture,    \* the toPng promise that is pending: "none", "empty" or "scene"
    download,   \* what the last downloaded chart.png shows
    estData,    \* the estimator alone: the data it is called with
    estRet,     \* the estimator alone: <<>>, or <<the value it returned>>
    clicks,     \* the number of clicks on "Generate Data" so far
    unhandled   \* a toPng promise was rejected, and nothing handled it

vars == <<points, slope, intercept, tooltip, shown, mountDue, renderDue,
          pointsNew, drawDue, circles, gAttr, anims, hover, capture,
          download, estData, estRet, clicks, unhandled>>

\* a null of the tooltip is <<>>, a number v is <<v>>
Null == <<>>

\* line 23 and line 138
HiddenTooltip ==
    [visible |-> FALSE, x |-> 0, y |-> 0, dataX |-> Null, dataY |-> Null]

\* lines 12-23: the state of the first render, which is committed, and
\* lines 64-174: its two effects, which have not run
Init ==
    /\ points = <<>>
    /\ slope = Num(0)
    /\ intercept = Num(0)
    /\ tooltip = HiddenTooltip
    /\ shown = [points |-> <<>>, slope |-> Num(0), intercept |-> Num(0),
                tooltip |-> HiddenTooltip]
    /\ mountDue = TRUE
    /\ renderDue = FALSE
    /\ pointsNew = FALSE
    /\ drawDue = FALSE
    /\ circles = <<>>
    /\ gAttr = [g \in {} |-> ""]
    /\ anims = <<>>
    /\ hover = 0
    /\ capture = "none"
    /\ download = "none"
    /\ estData = <<>>
    /\ estRet = <<>>
    /\ clicks = 0
    /\ unhandled = FALSE

(***************************************************************************)
(* GENERATE, RENDER, DRAW                                                  *)
(***************************************************************************)
\* the clicks on "Generate Data" are not limited by the code; the model
\* takes MaxClicks of them
MaxClicks == 1

\* lines 26-33: setPoints(newPoints) with a new array
generateData(rnd) ==
    /\ points' = SampleOf[rnd]
    /\ pointsNew' = TRUE
    /\ renderDue' = TRUE

\* lines 172-174 after lines 64-65: the effects of the first render, in
\* their order: the draw effect returns at once (no points), then
\* generateData
MountEffects ==
    /\ mountDue
    /\ Len(shown.points) = 0
    /\ \E rnd \in RandomDraws : generateData(rnd)
    /\ mountDue' = FALSE
    /\ UNCHANGED <<slope, intercept, tooltip, shown, drawDue, circles, gAttr,
                   anims, hover, capture, download, estData, estRet, clicks,
                   unhandled>>

\* line 180: onClick of "Generate Data"
ClickGenerate ==
    /\ clicks < MaxClicks
    /\ clicks' = clicks + 1
    /\ \E rnd \in RandomDraws : generateData(rnd)
    /\ UNCHANGED <<slope, intercept, tooltip, shown, mountDue, drawDue,
                   circles, gAttr, anims, hover, capture, download, estData,
                   estRet, unhandled>>

\* lines 10-23 and 176-266: React renders with the current state and
\* commits; the draw effect is due when points is a new array (line 170).
\* React runs the effects of a render before it renders again.
Render ==
    /\ renderDue
    /\ ~mountDue
    /\ ~drawDue
    /\ shown' = [points |-> points, slope |-> slope, intercept |-> intercept,
                 tooltip |-> tooltip]
    /\ drawDue' = pointsNew
    /\ pointsNew' = FALSE
    /\ renderDue' = FALSE
    /\ UNCHANGED <<points, slope, intercept, tooltip, mountDue, circles,
                   gAttr, anims, hover, capture, download, estData, estRet,
                   clicks, unhandled>>

\* lines 104 and 107: height - margin.bottom = 400 - 30, margin.left = 40
XAxisPlace == "translate(0,370)"
YAxisPlace == "translate(40,0)"

\* lines 100-108: the g elements the effect appends, the scene's g without
\* a transform.  (d3.axisBottom and d3.axisLeft append one more g for every
\* tick inside the axis groups; the model leaves them out.)
NewGroups == [g \in {"scene", "xAxis", "yAxis"} |->
                 IF g = "xAxis" THEN XAxisPlace
                 ELSE IF g = "yAxis" THEN YAxisPlace
                 ELSE ""]

\* line 168: the timeout of the callback of index i
StaggerMs == 50

Timeout(i) == i * StaggerMs

\* lines 157-169: the path of a new scene with datum [], and one timer for
\* every line point, of index 0, 1, ...
NewAnim(line) ==
    [line |-> line, datum |-> <<>>, pending |-> 0..(Len(line) - 1),
     late |-> FALSE]

\* line 84: the elements of the old scene leave the document.  An old path
\* lives on while a timer's callback holds it.
Detached(as) == SelectSeq(as, LAMBDA a : a.pending # {})

\* lines 45-46: setSlope(m) and setIntercept(b); React renders again when
\* a value is a new one (Object.is)
StoreFit(fit) ==
    /\ slope' = fit.m
    /\ intercept' = fit.b
    /\ renderDue' = (renderDue \/ fit.m # slope \/ fit.b # intercept)

\* lines 64-170: the draw effect of the last render, which reads that
\* render's points.  late of an animation is history: a callback of it ran
\* after its path had left the document.
DrawEffect ==
    /\ drawDue
    /\ drawDue' = FALSE
    /\ IF Len(shown.points) = 0
       THEN UNCHANGED <<slope, intercept, renderDue, circles, gAttr, anims,
                        hover>>
       ELSE /\ StoreFit(FitOf[shown.points])
            /\ circles' = shown.points
            /\ gAttr' = NewGroups
            /\ anims' = Append(Detached(anims), NewAnim(LineOf[shown.points]))
            /\ hover' = 0
    /\ UNCHANGED <<points, tooltip, shown, mountDue, pointsNew, capture,
                   download, estData, estRet, clicks, unhandled>>

(***************************************************************************)
(* THE LINE ANIMATION                                                      *)
(***************************************************************************)
\* The browser runs a timer after every timer that was set before it with
\* a timeout that is not longer.  The animations are in the order they
\* were made, and the timers of one in the order of their indices.
MayFire(a, i) ==
    /\ i \in anims[a].pending
    /\ \A j \in anims[a].pending : j < i => Timeout(j) > Timeout(i)
    /\ \A b \in 1..(a - 1) :
          \A j \in anims[b].pending : Timeout(j) > Timeout(i)

\* Callback with slice(0, i) in place of slice(0, i + 1) (line 166)
CallbackSliceShort(anim, i) ==
    [anim EXCEPT !.datum = SubSeq(anim.line, 1, i),
                 !.pending = anim.pending \ {i}]

\* lines 166-167: the callback of index i sets its own path's datum
Callback(anim, i) ==
    [anim EXCEPT !.datum = SubSeq(anim.line, 1, i + 1),
                 !.pending = anim.pending \ {i}]

\* TimerFire with a callback that looks the path up in the document, as
\* svg.select("path") would, in place of the path of its closure
TimerFireOnScene(a, i) ==
    /\ MayFire(a, i)
    /\ LET n == Len(anims)
           ran == [anims[a] EXCEPT !.pending = anims[a].pending \ {i},
                                   !.late = anims[a].late \/ a < n]
           as == [[anims EXCEPT ![a] = ran] EXCEPT
                      ![n].datum = SubSeq(anims[a].line, 1, i + 1)]
       IN  anims' = IF a < n /\ ran.pending = {}
                    THEN SubSeq(as, 1, a - 1) \o SubSeq(as, a + 1, n)
                    ELSE as
    /\ UNCHANGED <<points, slope, intercept, tooltip, shown, mountDue,
                   renderDue, pointsNew, drawDue, circles, gAttr, hover,
                   capture, download, estData, estRet, clicks, unhandled>>

\* lines 165-168: a timer of animation a runs.  An old animation whose
\* last timer ran is dropped: nothing holds its path any more.
TimerFire(a, i) ==
    /\ MayFire(a, i)
    /\ LET ran == [Callback(anims[a], i) EXCEPT
                        !.late = anims[a].late \/ a < Len(anims)]
           as == [anims EXCEPT ![a] = ran]
       IN  anims' = IF a < Len(anims) /\ ran.pending = {}
                    THEN SubSeq(as, 1, a - 1) \o SubSeq(as, a + 1, Len(as))
                    ELSE as
    /\ UNCHANGED <<points, slope, intercept, tooltip, shown, mountDue,
                   renderDue, pointsNew, drawDue, circles, gAttr, hover,
                   capture, download, estData, estRet, clicks, unhandled>>

(***************************************************************************)
(* THE TOOLTIP                                                             *)
(***************************************************************************)
\* the client positions of the pointer events the model chooses from
CursorPos == { [x |-> 120, y |-> 300], [x |-> 123, y |-> 300] }

\* the circles the pointer visits
HoverIdx == {1, NumPoints}

\* lines 121-129: mouseenter on the circle of index i, whose datum is d
MouseEnter(i, pos) ==
    /\ hover = 0
    /\ i \in 1..Len(circles)
    /\ LET d == circles[i]
       IN  tooltip' = [visible |-> TRUE, x |-> pos.x, y |-> pos.y,
                       dataX |-> <<d.x>>, dataY |-> <<d.y>>]
    /\ hover' = i
    /\ renderDue' = TRUE
    /\ UNCHANGED <<points, slope, intercept, shown, mountDue, pointsNew,
                   drawDue, circles, gAttr, anims, capture, download,
                   estData, estRet, clicks, unhandled>>

\* MouseMove without ...prev (line 132): the new tooltip has x and y only
MouseMoveNoSpread(pos) ==
    /\ hover # 0
    /\ tooltip' = [HiddenTooltip EXCEPT !.x = pos.x, !.y = pos.y]
    /\ renderDue' = TRUE
    /\ UNCHANGED <<points, slope, intercept, shown, mountDue, pointsNew,
                   drawDue, circles, gAttr, anims, hover, capture, download,
                   estData, estRet, clicks, unhandled>>

\* lines 130-136: mousemove on the circle under the pointer
MouseMove(pos) ==
    /\ hover # 0
    /\ tooltip' = [tooltip EXCEPT !.x = pos.x, !.y = pos.y]
    /\ renderDue' = TRUE
    /\ UNCHANGED <<points, slope, intercept, shown, mountDue, pointsNew,
                   drawDue, circles, gAttr, anims, hover, capture, download,
                   estData, estRet, clicks, unhandled>>

\* lines 137-139: mouseleave on the circle under the pointer
MouseLeave ==
    /\ hover # 0
    /\ tooltip' = HiddenTooltip
    /\ hover' = 0
    /\ renderDue' = TRUE
    /\ UNCHANGED <<points, slope, intercept, shown, mountDue, pointsNew,
                   drawDue, circles, gAttr, anims, capture, download,
                   estData, estRet, clicks, unhandled>>

(***************************************************************************)
(* ZOOM                                                                    *)
(***************************************************************************)
\* event.transform as the attribute's text.  Both keep the scale in
\* [1, 5] and the view inside [0, 0]-[600, 400] (lines 89-93).
ZoomTransforms ==
    { "translate(0,0) scale(1)", "translate(-300,-200) scale(2)",
      "translate(-2400,-1600) scale(5)" }

\* lines 94-96: svg.selectAll("g") is every g element inside the svg
Zoom(t) ==
    /\ Len(circles) > 0
    /\ gAttr' = [g \in DOMAIN gAttr |-> t]
    /\ UNCHANGED <<points, slope, intercept, tooltip, shown, mountDue,
                   renderDue, pointsNew, drawDue, circles, anims, hover,
                   capture, download, estData, estRet, clicks, unhandled>>

(***************************************************************************)
(* EXPORT                                                                  *)
(***************************************************************************)
\* lines 52-54: onClick of "Download as PNG"; svgRef.current is the svg
\* from the first commit on.  toPng copies the svg as it is now.  The
\* model keeps one promise pending at a time.
downloadPNG ==
    /\ capture = "none"
    /\ capture' = IF Len(circles) = 0 THEN "empty" ELSE "scene"
    /\ UNCHANGED <<points, slope, intercept, tooltip, shown, mountDue,
                   renderDue, pointsNew, drawDue, circles, gAttr, anims,
                   hover, download, estData, estRet, clicks, unhandled>>

\* lines 54-59: the promise is fulfilled; the link downloads chart.png
PngFulfilled ==
    /\ capture # "none"
    /\ download' = capture
    /\ capture' = "none"
    /\ UNCHANGED <<points, slope, intercept, tooltip, shown, mountDue,
                   renderDue, pointsNew, drawDue, circles, gAttr, anims,
                   hover, estData, estRet, clicks, unhandled>>

\* line 54: the promise is rejected; then() has one argument and there is
\* no catch, so no code runs: no file, no message
PngRejected ==
    /\ capture # "none"
    /\ capture' = "none"
    /\ unhandled' = TRUE
    /\ UNCHANGED <<points, slope, intercept, tooltip, shown, mountDue,
                   renderDue, pointsNew, drawDue, circles, gAttr, anims,
                   hover, download, estData, estRet, clicks>>

(***************************************************************************)
(* THE ESTIMATOR ALONE                                                     *)
(***************************************************************************)
\* calculateRegression takes any Sample.  The samples it is called with
\* here: up to MaxLen points with coordinates from XVals and YVals.
MaxLen == 3

XVals == {1, 2, 3}

YVals == {1, 3, 5, 7}

EstPoints == { [x |-> Num(a), y |-> Num(b)] : a \in XVals, b \in YVals }

EstInputs == UNION { [1..n -> EstPoints] : n \in 1..MaxLen }

\* the component before a call of calculateRegression(estData)
InitEst ==
    /\ points = <<>>
    /\ slope = Num(0)
    /\ intercept = Num(0)
    /\ tooltip = HiddenTooltip
    /\ shown = [points |-> <<>>, slope |-> Num(0), intercept |-> Num(0),
                tooltip |-> HiddenTooltip]
    /\ mountDue = TRUE
    /\ renderDue = FALSE
    /\ pointsNew = FALSE
    /\ drawDue = FALSE
    /\ circles = <<>>
    /\ gAttr = [g \in {} |-> ""]
    /\ anims = <<>>
    /\ hover = 0
    /\ capture = "none"
    /\ download = "none"
    /\ estData \in EstInputs
    /\ estRet = <<>>
    /\ clicks = 0
    /\ unhandled = FALSE

\* lines 36-49: one call, which stores the fit and returns it
EstCall ==
    /\ estRet = <<>>
    /\ LET fit == calculateRegression(estData)
       IN  /\ StoreFit(fit)
           /\ estRet' = <<fit>>
    /\ UNCHANGED <<points, tooltip, shown, mountDue, pointsNew, drawDue,
                   circles, gAttr, anims, hover, capture, download, estData,
                   clicks, unhandled>>

(***************************************************************************)
(* SPECIFICATIONS                                                          *)
(***************************************************************************)
Core == MountEffects \/ ClickGenerate \/ Render \/ DrawEffect

\* what React does by itself
React == MountEffects \/ Render \/ DrawEffect

Timers == \E a \in 1..Len(anims) : \E i \in anims[a].pending : TimerFire(a, i)

Pointer ==
    \/ \E i \in HoverIdx : \E pos \in CursorPos : MouseEnter(i, pos)
    \/ \E pos \in CursorPos : MouseMove(pos)
    \/ MouseLeave

Zooms == \E t \in ZoomTransforms : Zoom(t)

Export == downloadPNG \/ PngFulfilled \/ PngRejected

\* the component
Next == Core \/ Timers \/ Pointer \/ Zooms \/ Export

Spec == Init /\ [][Next]_vars

\* The handlers of the timers, of the pointer, of the zoom and of the
\* export write disjoint parts of the state (anims; tooltip, hover and
\* renderDue; gAttr; capture, download and unhandled), and none reads what
\* another writes.  Each part is checked with Core, which all of them
\* depend on.

\* Generate, render, draw and the line animation.  React runs a render
\* and an effect that are due, and the browser runs a timer that is set.
NextAnim == Core \/ Timers

SpecAnim == Init /\ [][NextAnim]_vars /\ WF_vars(React) /\ WF_vars(Timers)

\* Generate, render, draw and the pointer on the circles
NextHover == Core \/ Pointer

SpecHover == Init /\ [][NextHover]_vars

\* Generate, render, draw and zoom
NextZoom == Core \/ Zooms

SpecZoom == Init /\ [][NextZoom]_vars

\* Generate, render, draw and export
NextExport == Core \/ Export

SpecExport == Init /\ [][NextExport]_vars

\* the estimator alone
SpecEst == InitEst /\ [][EstCall]_vars

(***************************************************************************)
(* PROPERTIES                                                              *)
(***************************************************************************)
\* nothing is due: no effect to run, no render to make
Settled == ~mountDue /\ ~renderDue /\ ~drawDue

\* C1: every committed render that shows a Sample shows, as its Fit, the
\* least-squares fit of that Sample.
\* Violated under SpecAnim: the render after generateData shows the new
\* points with the slope and the intercept of before; the draw effect
\* stores the new fit after that render is committed.
ShownFitIsOfShownSample ==
    shown.points # <<>> =>
        /\ shown.slope = calculateRegression(shown.points).m
        /\ shown.intercept = calculateRegression(shown.points).b

\* C7: the Sample is empty (before the first generateData) or has exactly
\* NumPoints points with x = 1, 2, ..., NumPoints in this order; and a
\* step that changes the Sample leaves NumPoints points that are made of
\* new draws alone, whatever the Sample before was.
\* Holds under SpecHover.
SampleIsOneToN ==
    /\ [](\/ points = <<>>
          \/ /\ Len(points) = NumPoints
             /\ \A i \in 1..NumPoints : points[i].x = Num(i))
    /\ [][points' # points =>
            /\ Len(points') = NumPoints
            /\ points' \in Samples]_vars

\* C7 happens: a click on Generate has replaced a Sample that is on screen
\* by another one
SampleReplaced ==
    /\ clicks > 0
    /\ Len(shown.points) = NumPoints
    /\ Len(points) = NumPoints
    /\ points # shown.points

\* C5: a mouseenter on a circle makes the tooltip visible with dataX and
\* dataY the x and y of that circle's point; a mousemove changes x and y of
\* the tooltip and nothing else of it; a mouseleave hides the tooltip and
\* empties dataX and dataY; so while the pointer is on a circle the tooltip
\* is visible with that circle's point, and a hidden tooltip has no data.
\* Holds under SpecHover.
TooltipFollowsPointer ==
    /\ [](/\ hover # 0 =>
               /\ tooltip.visible
               /\ tooltip.dataX = <<circles[hover].x>>
               /\ tooltip.dataY = <<circles[hover].y>>
          /\ ~tooltip.visible => tooltip.dataX = Null /\ tooltip.dataY = Null)
    /\ [][\A i \in HoverIdx : \A pos \in CursorPos :
            MouseEnter(i, pos) =>
                /\ tooltip'.visible
                /\ tooltip'.dataX = <<circles[i].x>>
                /\ tooltip'.dataY = <<circles[i].y>>]_vars
    /\ [][\A pos \in CursorPos :
            MouseMove(pos) =>
                /\ tooltip'.x = pos.x /\ tooltip'.y = pos.y
                /\ tooltip'.visible = tooltip.visible
                /\ tooltip'.dataX = tooltip.dataX
                /\ tooltip'.dataY = tooltip.dataY]_vars
    /\ [][MouseLeave =>
            /\ ~tooltip'.visible
            /\ tooltip'.dataX = Null /\ tooltip'.dataY = Null]_vars

\* C5 happens: the tooltip on screen is the one of the last point, at a
\* cursor position
TooltipOnLastPoint ==
    /\ hover = NumPoints
    /\ shown.tooltip = tooltip
    /\ tooltip.visible
    /\ tooltip.dataX = <<Num(NumPoints)>>
    /\ tooltip.dataY = <<shown.points[NumPoints].y>>
    /\ [x |-> tooltip.x, y |-> tooltip.y] \in CursorPos

\* C9: when nothing is due, a tooltip that is visible on screen has the
\* coordinates of a point of the Sample on screen.
\* Violated under SpecHover: Generate while the pointer is on a circle.
\* The draw effect removes the circle, no mouseleave comes, and the
\* tooltip stays visible with the point of the old Sample.
TooltipPointIsInSample ==
    (Settled /\ shown.tooltip.visible) =>
        \E i \in 1..Len(shown.points) :
            /\ shown.tooltip.dataX = <<shown.points[i].x>>
            /\ shown.tooltip.dataY = <<shown.points[i].y>>

\* C10: in a drawn scene the x-axis group and the y-axis group have the
\* transforms the draw effect gave them, whatever zoom events came.
\* Violated under SpecZoom: a zoom event sets the transform of the scene
\* group and of both axis groups to the zoom transform.
AxisGroupsKeepPlace ==
    Len(circles) > 0 =>
        /\ gAttr["xAxis"] = XAxisPlace
        /\ gAttr["yAxis"] = YAxisPlace

\* C6: no chart.png shows an empty scene, and no capture fails without
\* a failure result.
\* Violated under SpecExport: downloadPNG before the first draw downloads
\* a picture of the empty svg; a rejected toPng promise is handled nowhere.
ExportFailsExplicitly == download # "empty" /\ ~unhandled

\* the animation of the scene that is drawn: the last one made
CurPath == anims[Len(anims)]

\* the path of the scene holds every line point, and no timer of it is left
PathComplete ==
    /\ circles # <<>>
    /\ CurPath.pending = {}
    /\ CurPath.datum = CurPath.line

\* C8: the line of the drawn scene has the 2 * (NumPoints + 1) points
\* x = 0, 0.5, 1, ... below max x + 1 = NumPoints + 1 with y = m x + b of the
\* fit; the timers of an animation run in increasing order of index; the
\* path is the first k line points when k of its timers have run; between
\* redraws the path does not change or gets the next line point at its
\* end; from a drawn scene on, the path gets complete unless a redraw is
\* due; and a complete path stays so until a redraw.
\* Holds under SpecAnim.
PathGrowsToWholeLine ==
    /\ [](circles # <<>> =>
            /\ Len(CurPath.line) = 2 * (NumPoints + 1)
            /\ \A j \in 1..Len(CurPath.line) :
                  /\ CurPath.line[j].x = Canon(j - 1, -1)
                  /\ CurPath.line[j].y =
                         Add(Mul(slope, Canon(j - 1, -1)), intercept)
            /\ CurPath.pending = Len(CurPath.datum)..(Len(CurPath.line) - 1)
            /\ CurPath.datum = SubSeq(CurPath.line, 1, Len(CurPath.datum)))
    /\ [][\A a \in 1..Len(anims) : \A i \in anims[a].pending :
            TimerFire(a, i) => \A j \in anims[a].pending : i <= j]_vars
    /\ [][(circles # <<>> /\ ~drawDue) =>
            \/ CurPath'.datum = CurPath.datum
            \/ /\ Len(CurPath.datum) < Len(CurPath.line)
               /\ CurPath'.datum =
                      Append(CurPath.datum,
                             CurPath.line[Len(CurPath.datum) + 1])]_vars
    /\ (circles # <<>>) ~> (PathComplete \/ drawDue)
    /\ [][(PathComplete /\ ~drawDue) => PathComplete']_vars

\* C8 happens: the path of a Sample that is drawn and on screen is complete
WholeLineDrawn ==
    /\ PathComplete
    /\ Settled
    /\ circles = points
    /\ Len(CurPath.datum) = 2 * (NumPoints + 1)

\* a timer of an animation that is not the drawn scene's runs
StaleFire(a, i) == a < Len(anims) /\ TimerFire(a, i)

\* C4, as the code has it: a redraw keeps the timers of the animations
\* before it (none is cancelled), and when one of them runs later, the path
\* of the drawn scene and the timers of that scene are as they were: the
\* callback changes the path of its own scene, which has left the document.
\* Holds under SpecAnim.
StaleCallbackMissesScene ==
    /\ [][(drawDue /\ ~drawDue' /\ Len(shown.points) > 0) =>
            \A a \in 1..Len(anims) :
                anims[a].pending # {} =>
                    \E b \in 1..(Len(anims') - 1) : anims'[b] = anims[a]]_vars
    /\ [][\A a \in 1..Len(anims) : \A i \in anims[a].pending :
            StaleFire(a, i) =>
                /\ CurPath' = CurPath
                /\ circles' = circles]_vars

\* C4 happens: a callback of an animation has run after a redraw that
\* replaced its scene, and the animation has timers left
StaleCallbackRan ==
    \E a \in 1..(Len(anims) - 1) :
        /\ anims[a].late
        /\ anims[a].pending # {}
        /\ anims[a].line # CurPath.line

\* C4, as the claim has it: a timer of a replaced animation that runs
\* changes the path of the drawn scene.
\* Violated under SpecAnim.
StaleCallbackChangesScene ==
    [][\A a \in 1..Len(anims) : \A i \in anims[a].pending :
          StaleFire(a, i) => CurPath'.datum # CurPath.datum]_vars

(***************************************************************************)
(* The estimator's properties are stated with the exact sums of a sample   *)
(* that has integer coordinates, kept as integers.                         *)
(***************************************************************************)
\* the integer value of a number that is an integer
IntOf(v) == v.m * Pow2(v.e)

RECURSIVE Sigma(_)
Sigma(s) == IF s = <<>> THEN 0 ELSE Head(s) + Sigma(Tail(s))

SigmaX(data) == Sigma([i \in 1..Len(data) |-> IntOf(data[i].x)])

SigmaY(data) == Sigma([i \in 1..Len(data) |-> IntOf(data[i].y)])

SigmaXY(data) ==
    Sigma([i \in 1..Len(data) |-> IntOf(data[i].x) * IntOf(data[i].y)])

SigmaXX(data) ==
    Sigma([i \in 1..Len(data) |-> IntOf(data[i].x) * IntOf(data[i].x)])

\* n Sxy - Sx Sy and n Sxx - Sx Sx: the exact slope is their quotient
SlopeNum(data) ==
    Len(data) * SigmaXY(data) - SigmaX(data) * SigmaY(data)

SlopeDen(data) ==
    Len(data) * SigmaXX(data) - SigmaX(data) * SigmaX(data)

DistinctX(data) == \E i, j \in 1..Len(data) : data[i].x # data[j].x

\* the odd factor of the integer k # 0
OddPart(k) == Abs(Canon(k, 0).m)

\* the exact slope and the exact intercept are integers over a power of 2,
\* the only fractions a binary number can be
ExactFitIsBinary(data) ==
    /\ SlopeDen(data) # 0
    /\ SlopeNum(data) % OddPart(SlopeDen(data)) = 0
    /\ (SigmaY(data) * SlopeDen(data) - SlopeNum(data) * SigmaX(data))
           % OddPart(Len(data) * SlopeDen(data)) = 0

\* v * k as a number, without rounding
Times(v, k) == Canon(v.m * k, v.e)

\* a + b = t without rounding, for numbers a, b and an integer t: when the
\* lowest bits of a and b are at different places, the lowest bit of a + b
\* is the lower one of them
PlusIs(a, b, t) ==
    IF a.e = b.e THEN Canon(a.m + b.m, a.e) = Num(t)
    ELSE IF a.e < 0 \/ b.e < 0 THEN FALSE
    ELSE IntOf(a) + IntOf(b) = t

\* m (n Sxx - Sx Sx) = n Sxy - Sx Sy and n b = Sy - m Sx, in the reals
NormalEquations(fit, data) ==
    /\ IsNum(fit.m) /\ IsNum(fit.b)
    /\ Times(fit.m, SlopeDen(data)) = Num(SlopeNum(data))
    /\ PlusIs(Times(fit.b, Len(data)), Times(fit.m, SigmaX(data)),
              SigmaY(data))

\* the sample of the example: y = 2 x + 1
LinearExample ==
    <<[x |-> Num(1), y |-> Num(3)], [x |-> Num(2), y |-> Num(5)],
      [x |-> Num(3), y |-> Num(7)]>>

DegenerateFitNotStored ==
    (estRet # <<>> /\ ~DistinctX(estData)) =>
        slope = Num(0) /\ intercept = Num(0)

=============================================================================
